---- MODULE Spec2Model ----
(***************************************************************************)
(* A model of src/webapp.py: the browser client embedded in INDEX_HTML     *)
(* (loadHistory, saveHistory, renderMessages, sendMessage) and the Flask   *)
(* handler chat() behind POST /api/chat.                                   *)
(*                                                                         *)
(* Text is a sequence of symbols.  A symbol is one character (" ", "a",    *)
(* the double quote, the backslash, the horizontal ellipsis U+2026) or a   *)
(* run of characters that the program never splits ("role", "user",        *)
(* "Error: ", ...).  JSON text is such a sequence too; it is produced by   *)
(* JSONStringify / Jsonify and read back by JSONParse, so that what is     *)
(* stored and what is sent is the serialised text, as in the program.      *)
(* Insignificant white space in JSON text is not modelled.                 *)
(***************************************************************************)
EXTENDS Integers, Sequences, FiniteSets, TLC

(***************************************************************************)
(* Bounds of the model.                                                    *)
(***************************************************************************)
\* sendMessage invocations that start a turn, per behaviour
MaxTurns == 2
\* entries of a `messages` array posted to /api/chat by an arbitrary caller
MaxEntries == 3
\* Messages of a history handed to saveHistory in the storage specification
MaxHist == 2

(***************************************************************************)
(* Symbols.                                                                *)
(***************************************************************************)
Quote == "\""
Backslash == "\\"
Space == " "
\* U+2026, the single character of the typing placeholder's content
Ellipsis == "u2026"
Digits == {"5"}
Literals == {"null", "true", "false"}

(***************************************************************************)
(* JavaScript / Python values, as they come out of a JSON parser.  Every   *)
(* value is a record of one shape: its type t, its text s (a string, the   *)
(* digits of a number, a literal), its elements or member values xs, and   *)
(* its member keys ks.  An object keeps its members in insertion order.    *)
(***************************************************************************)
Value(t, s, xs, ks) == [t |-> t, s |-> s, xs |-> xs, ks |-> ks]
Str(s) == Value("str", s, <<>>, <<>>)
Arr(xs) == Value("arr", <<>>, xs, <<>>)
\* an object from its members <<key, value>>
Obj(ps) ==
  Value("obj", <<>>, [i \in 1..Len(ps) |-> ps[i][2]], [i \in 1..Len(ps) |-> ps[i][1]])
Num(d) == Value("num", d, <<>>, <<>>)
Lit(l) == Value("lit", <<l>>, <<>>, <<>>)
Null == Lit("null")
\* JavaScript's undefined: the value of a missing property
Undefined == Value("undef", <<>>, <<>>, <<>>)

IsStr(x) == x.t = "str"
IsArr(x) == x.t = "arr"
IsObj(x) == x.t = "obj"

RECURSIVE FindKey(_, _, _)
\* index of the key k in ks, looking from index i; 0 if none
FindKey(ks, k, i) ==
  IF i > Len(ks) THEN 0
  ELSE IF ks[i] = k THEN i
  ELSE FindKey(ks, k, i + 1)

HasKey(o, k) == FindKey(o.ks, k, 1) # 0

\* o with member k set to x: in place when the key exists, appended otherwise
ObjPut(o, k, x) ==
  LET i == FindKey(o.ks, k, 1)
  IN IF i = 0 THEN [o EXCEPT !.ks = Append(o.ks, k), !.xs = Append(o.xs, x)]
     ELSE [o EXCEPT !.xs[i] = x]

\* JavaScript o.k : undefined when the property is missing
Prop(o, k) ==
  LET i == FindKey(o.ks, k, 1)
  IN IF i = 0 THEN Undefined ELSE o.xs[i]

\* Python d.get(k, dflt)
DictGet(d, k, dflt) ==
  LET i == FindKey(d.ks, k, 1)
  IN IF i = 0 THEN dflt ELSE d.xs[i]

(***************************************************************************)
(* Serialisation.                                                          *)
(***************************************************************************)
RECURSIVE EscapeWith(_, _)
\* the characters of s, each member of the set esc behind a backslash
EscapeWith(s, esc) ==
  IF s = <<>> THEN <<>>
  ELSE (IF Head(s) \in esc THEN <<Backslash, Head(s)>> ELSE <<Head(s)>>)
       \o EscapeWith(Tail(s), esc)

StrLit(s, esc) == <<Quote>> \o EscapeWith(s, esc) \o <<Quote>>

RECURSIVE Serialise(_, _), SerialiseElems(_, _, _), SerialiseMembers(_, _, _, _)
Serialise(x, esc) ==
  CASE x.t = "str" -> StrLit(x.s, esc)
    [] x.t = "num" -> x.s
    [] x.t = "lit" -> x.s
    [] x.t = "undef" -> <<"null">>
    [] x.t = "arr" -> <<"[">> \o SerialiseElems(x.xs, 1, esc) \o <<"]">>
    [] x.t = "obj" -> <<"{">> \o SerialiseMembers(x, 1, TRUE, esc) \o <<"}">>

SerialiseElems(xs, i, esc) ==
  IF i > Len(xs) THEN <<>>
  ELSE (IF i > 1 THEN <<",">> ELSE <<>>)
       \o Serialise(xs[i], esc) \o SerialiseElems(xs, i + 1, esc)

\* a member whose value is undefined is left out
SerialiseMembers(o, i, first, esc) ==
  IF i > Len(o.ks) THEN <<>>
  ELSE IF o.xs[i].t = "undef" THEN SerialiseMembers(o, i + 1, first, esc)
  ELSE (IF first THEN <<>> ELSE <<",">>)
       \o StrLit(o.ks[i], esc) \o <<":">> \o Serialise(o.xs[i], esc)
       \o SerialiseMembers(o, i + 1, FALSE, esc)

\* JavaScript JSON.stringify: escapes the quote and the backslash
JSONStringify(x) == Serialise(x, {Quote, Backslash})

\* Flask jsonify: json.dumps with ensure_ascii, which also escapes U+2026
Jsonify(x) == Serialise(x, {Quote, Backslash, Ellipsis})

(***************************************************************************)
(* Parsing: JSON.parse in the browser, json.loads behind get_json.         *)
(* A parse step gives [ok, val, pos]: pos is the index after the value.    *)
(***************************************************************************)
ParseFail == [ok |-> FALSE, val |-> Null, pos |-> 0]
ParseOk(x, p) == [ok |-> TRUE, val |-> x, pos |-> p]
At(raw, p) == IF p >= 1 /\ p <= Len(raw) THEN raw[p] ELSE "EOF"

RECURSIVE ScanStr(_, _, _)
\* the string literal whose opening quote is at p - 1
ScanStr(raw, p, acc) ==
  IF p > Len(raw) THEN ParseFail
  ELSE IF raw[p] = Quote THEN ParseOk(Str(acc), p + 1)
  ELSE IF raw[p] = Backslash
    THEN IF At(raw, p + 1) \in {Quote, Backslash, Ellipsis}
         THEN ScanStr(raw, p + 2, Append(acc, raw[p + 1]))
         ELSE ParseFail
  ELSE ScanStr(raw, p + 1, Append(acc, raw[p]))

RECURSIVE ScanNum(_, _, _)
ScanNum(raw, p, acc) ==
  IF At(raw, p) \in Digits THEN ScanNum(raw, p + 1, Append(acc, raw[p]))
  ELSE ParseOk(Num(acc), p)

RECURSIVE ParseValue(_, _), ParseElems(_, _, _), ParseMembers(_, _, _)
ParseValue(raw, p) ==
  LET c == At(raw, p)
  IN CASE c = Quote -> ScanStr(raw, p + 1, <<>>)
       [] c = "[" -> IF At(raw, p + 1) = "]" THEN ParseOk(Arr(<<>>), p + 2)
                     ELSE ParseElems(raw, p + 1, <<>>)
       [] c = "{" -> IF At(raw, p + 1) = "}" THEN ParseOk(Obj(<<>>), p + 2)
                     ELSE ParseMembers(raw, p + 1, Obj(<<>>))
       [] c \in Literals -> ParseOk(Lit(c), p + 1)
       [] c \in Digits -> ScanNum(raw, p, <<>>)
       [] OTHER -> ParseFail

ParseElems(raw, p, acc) ==
  LET r == ParseValue(raw, p)
  IN IF ~r.ok THEN ParseFail
     ELSE IF At(raw, r.pos) = "," THEN ParseElems(raw, r.pos + 1, Append(acc, r.val))
     ELSE IF At(raw, r.pos) = "]" THEN ParseOk(Arr(Append(acc, r.val)), r.pos + 1)
     ELSE ParseFail

\* a repeated key keeps its first place and takes the last value
ParseMembers(raw, p, acc) ==
  IF At(raw, p) # Quote THEN ParseFail
  ELSE LET k == ScanStr(raw, p + 1, <<>>)
       IN IF ~k.ok \/ At(raw, k.pos) # ":" THEN ParseFail
          ELSE LET r == ParseValue(raw, k.pos + 1)
                   o == ObjPut(acc, k.val.s, r.val)
               IN IF ~r.ok THEN ParseFail
                  ELSE IF At(raw, r.pos) = "," THEN ParseMembers(raw, r.pos + 1, o)
                  ELSE IF At(raw, r.pos) = "}" THEN ParseOk(o, r.pos + 1)
                  ELSE ParseFail

\* [ok, val]: ok is FALSE where the parser throws
JSONParse(raw) ==
  LET r == ParseValue(raw, 1)
  IN IF r.ok /\ r.pos = Len(raw) + 1 THEN [ok |-> TRUE, val |-> r.val]
     ELSE [ok |-> FALSE, val |-> Null]

(***************************************************************************)
(* Text helpers shared by both sides: str.strip() and String.trim().       *)
(***************************************************************************)
Newline == "\n"
Whitespace == {Space, Newline}

RECURSIVE StripLeft(_)
StripLeft(s) ==
  IF s # <<>> /\ Head(s) \in Whitespace THEN StripLeft(Tail(s)) ELSE s

RECURSIVE StripRight(_)
StripRight(s) ==
  IF s # <<>> /\ s[Len(s)] \in Whitespace
  THEN StripRight(SubSeq(s, 1, Len(s) - 1)) ELSE s

Strip(s) == StripRight(StripLeft(s))

(***************************************************************************)
(* The server: chat(), the handler of POST /api/chat.                      *)
(***************************************************************************)
KRole == <<"role">>
KContent == <<"content">>
KMessages == <<"messages">>
KReply == <<"reply">>
KError == <<"error">>

MaxTokens == 512
Temperature == "0.7"
\* MODEL, read from the environment once at start-up
MODEL == "gpt-4o-mini"
system_prompt == Str(<<"You are a friendly, concise, cute assistant ...">>)

\* a {role, content} dict, built in this key order
Message(role, content) == Obj(<< <<KRole, role>>, <<KContent, content>> >>)

\* Python None, the default of dict.get
None == Null

\* a response: status, reason phrase, content type, body text
Response(status, body) ==
  [status |-> status,
   statusText |-> CASE status = 200 -> "OK"
                    [] status = 400 -> "BAD REQUEST"
                    [] OTHER -> "INTERNAL SERVER ERROR",
   body |-> body]

\* jsonify(x), status
JsonResponse(x, status) == Response(status, Jsonify(x))

\* what Flask answers when get_json cannot decode the body
BadRequestPage == Response(400, <<"<!doctype html>">>)
\* what Flask answers when the view raises and nothing catches it
UnhandledPage == Response(500, <<"<!doctype html>">>)

\* SkipEntry without its test of the content
SkipEntryRoleOnly(role, content) ==
  ~(role \in {Str(<<"user">>), Str(<<"assistant">>)})

\* role not in ('user','assistant') or not isinstance(content, str)
SkipEntry(role, content) ==
  ~(role \in {Str(<<"user">>), Str(<<"assistant">>)}) \/ ~IsStr(content)

RECURSIVE AppendMessages(_, _, _)
\* the for loop over messages, from index i, onto openai_messages;
\* [ok, val]: ok is FALSE where m.get raises AttributeError (m is no dict)
AppendMessages(messages, i, openai_messages) ==
  IF i > Len(messages) THEN [ok |-> TRUE, val |-> openai_messages]
  ELSE LET m == messages[i]
       IN IF ~IsObj(m) THEN [ok |-> FALSE, val |-> openai_messages]
          ELSE LET role == DictGet(m, KRole, None)
                   content == DictGet(m, KContent, None)
               IN IF SkipEntry(role, content)
                  THEN AppendMessages(messages, i + 1, openai_messages)
                  ELSE AppendMessages(messages, i + 1,
                         Append(openai_messages, Message(role, content)))

\* openai_messages, as built from the posted list
OpenaiMessages(messages) ==
  AppendMessages(messages, 1, <<Message(Str(<<"system">>), system_prompt)>>)

\* the arguments of client.chat.completions.create
CreateCall(openai_messages) ==
  [model |-> MODEL, messages |-> openai_messages,
   max_tokens |-> MaxTokens, temperature |-> Temperature]

(***************************************************************************)
(* What the completion API does with a call: it raises, or it returns a    *)
(* response whose choices each carry a message content (text or None).     *)
(***************************************************************************)
Raises(text) == [kind |-> "raise", text |-> text, choices |-> <<>>]
Returns(choices) == [kind |-> "return", text |-> <<>>, choices |-> choices]

\* the try block after the call: [ok, reply] or the text of the exception
AfterCreate(outcome) ==
  IF outcome.kind = "raise" THEN [ok |-> FALSE, text |-> outcome.text]
  ELSE IF outcome.choices = <<>>
    THEN [ok |-> FALSE, text |-> <<"list index out of range">>]
  ELSE IF ~IsStr(outcome.choices[1])
    THEN [ok |-> FALSE,
          text |-> <<"'NoneType' object has no attribute 'strip'">>]
  ELSE [ok |-> TRUE, text |-> Strip(outcome.choices[1].s)]

\* isinstance(messages, list)
IsList(messages) == IsArr(messages)

\* InvalidMessages without its status: jsonify's default, 200
InvalidMessagesAs200 ==
  [resp |-> JsonResponse(Obj(<< <<KError, Str(<<"invalid messages">>)>> >>), 200),
   calls |-> <<>>]

\* return jsonify({'error':'invalid messages'}), 400
InvalidMessages ==
  [resp |-> JsonResponse(Obj(<< <<KError, Str(<<"invalid messages">>)>> >>), 400),
   calls |-> <<>>]

\* chat() on a request body, the completion API answering with outcome:
\* [resp, calls]: the response, and the create calls made on the way
chat(body, outcome) ==
  LET parsed == JSONParse(body)
      data == parsed.val
  IN IF ~parsed.ok THEN [resp |-> BadRequestPage, calls |-> <<>>]
     ELSE IF ~IsObj(data) THEN [resp |-> UnhandledPage, calls |-> <<>>]
     ELSE LET messages == DictGet(data, KMessages, Arr(<<>>))
          IN IF ~IsList(messages) THEN InvalidMessages
             ELSE LET built == OpenaiMessages(messages.xs)
                      after == AfterCreate(outcome)
                  IN IF ~built.ok THEN [resp |-> UnhandledPage, calls |-> <<>>]
                     ELSE [resp |-> IF after.ok
                                    THEN JsonResponse(
                                           Obj(<< <<KReply, Str(after.text)>> >>), 200)
                                    ELSE JsonResponse(
                                           Obj(<< <<KError, Str(after.text)>> >>), 500),
                           calls |-> <<CreateCall(built.val)>>]


(***************************************************************************)
(* The client: the script of INDEX_HTML.                                   *)
(***************************************************************************)
\* localStorage's entry 'cute_chat_history': absent, or a text
Absent == [has |-> FALSE, raw |-> <<>>]
Stored(raw) == [has |-> TRUE, raw |-> raw]

\* the content of the typing placeholder
Sentinel == <<Ellipsis>>

\* loadHistory(): [] when the entry is absent or empty or JSON.parse throws,
\* and otherwise whatever JSON.parse returns
loadHistory(st) ==
  IF ~st.has \/ st.raw = <<>> THEN Arr(<<>>)
  ELSE LET parsed == JSONParse(st.raw)
       IN IF parsed.ok THEN parsed.val ELSE Arr(<<>>)

\* saveHistory(history): the new value of the entry
saveHistory(history) == Stored(JSONStringify(history))

RECURSIVE escapeHtml(_)
escapeHtml(unsafe) ==
  IF unsafe = <<>> THEN <<>>
  ELSE LET c == Head(unsafe)
       IN <<CASE c = "&" -> "&amp;"
              [] c = "<" -> "&lt;"
              [] c = ">" -> "&gt;"
              [] c = Quote -> "&quot;"
              [] c = "'" -> "&#039;"
              [] OTHER -> c>> \o escapeHtml(Tail(unsafe))

\* the runs that start a match of /(https?:\/\/[^\s]+)/
UrlStarts == {"http://", "https://"}

RECURSIVE UrlEnd(_, _)
\* the index after the run of non-space symbols that starts at i
UrlEnd(text, i) ==
  IF i > Len(text) \/ text[i] \in Whitespace THEN i ELSE UrlEnd(text, i + 1)

RECURSIVE linkify(_)
linkify(text) ==
  IF text = <<>> THEN <<>>
  ELSE IF Head(text) \in UrlStarts /\ UrlEnd(text, 2) > 2
    THEN LET e == UrlEnd(text, 2)
             url == SubSeq(text, 1, e - 1)
         IN <<"<a href=\"">> \o url
            \o <<"\" target=\"_blank\" rel=\"noopener\">">> \o url \o <<"</a>">>
            \o linkify(SubSeq(text, e, Len(text)))
  ELSE <<Head(text)>> \o linkify(Tail(text))

\* .replace(/\n/g,'<br>')
NewlinesToBr(text) ==
  [i \in 1..Len(text) |-> IF text[i] = Newline THEN "<br>" ELSE text[i]]

\* the div that renderMessages builds for one message
MessageDiv(m) ==
  LET mine == Prop(m, KRole) = Str(<<"user">>)
  IN [className |-> IF mine THEN "msg user" ELSE "msg bot",
      meta |-> IF mine THEN "You" ELSE "Assistant",
      innerHTML |-> NewlinesToBr(linkify(escapeHtml(Prop(m, KContent).s)))]

\* renderMessages(history): the children of #messages
renderMessages(history) == [i \in 1..Len(history.xs) |-> MessageDiv(history.xs[i])]

\* trim that trims nothing
trimNothing(value) == value

\* inputEl.value.trim()
trim(value) == Strip(value)

\* history.filter(m => m.content !== Sentinel)
WithoutSentinel(history) ==
  Arr(SelectSeq(history.xs, LAMBDA m : Prop(m, KContent) # Str(Sentinel)))

\* history.push(m)
Push(history, m) == Arr(Append(history.xs, m))
\* history.pop()
Pop(history) == Arr(SubSeq(history.xs, 1, Len(history.xs) - 1))

typingPlaceholder == Message(Str(<<"assistant">>), Str(Sentinel))

\* StartTurn with saveHistory called after the placeholder is pushed
StartTurnStoringPlaceholder(raw, st) ==
  LET withUser == Push(loadHistory(st), Message(Str(<<"user">>), Str(raw)))
      history == Push(withUser, typingPlaceholder)
  IN [history |-> history,
      storage |-> saveHistory(history),
      rendered |-> renderMessages(history),
      body |-> JSONStringify(Obj(<< <<KMessages, WithoutSentinel(history)>> >>))]

\* sendMessage() with a non-empty trimmed input raw, up to the await of
\* fetch: the local history, what was stored, what is shown, what is posted
StartTurn(raw, st) ==
  LET withUser == Push(loadHistory(st), Message(Str(<<"user">>), Str(raw)))
      history == Push(withUser, typingPlaceholder)
  IN [history |-> history,
      storage |-> saveHistory(withUser),
      rendered |-> renderMessages(history),
      body |-> JSONStringify(Obj(<< <<KMessages, WithoutSentinel(history)>> >>))]

\* Replaced without its history.pop()
ReplacedWithoutPop(history, content) ==
  Push(history, Message(Str(<<"assistant">>), content))

\* history.pop(); history.push({role:'assistant', content}), in both the
\* try block and the catch block
Replaced(history, content) ==
  Push(Pop(history), Message(Str(<<"assistant">>), content))

\* what fetch rejects with when the request cannot be completed
FetchError == <<"Failed to fetch">>
\* what resp.json() rejects with when the body is no JSON text
JsonError == <<"Unexpected token">>
\* 'Error: ' + err.message
ErrorContent(message) == Str(<<"Error: ">> \o message)
\* new Error('Server error: ' + resp.statusText).message
ServerErrorMessage(resp) == <<"Server error: ", resp.statusText>>

\* resp.ok
Ok(resp) == resp.status >= 200 /\ resp.status <= 299
NoResponse == [status |-> 0, statusText |-> "", body |-> <<>>]


(***************************************************************************)
(* State.                                                                  *)
(*   storage     the localStorage entry                                    *)
(*   inputValue  inputEl.value                                             *)
(*   rendered    the children of #messages                                 *)
(*   turns       the sendMessage calls that got past the guard, in order   *)
(*               of invocation; of each: where it stands (pc: "fetch" at   *)
(*               await fetch, "json" at await resp.json(), "done" once     *)
(*               settled, "gone" when the page was reloaded under it),     *)
(*               its local history, the body it posted and the response    *)
(*   loaded      the last loadHistory() call of the storage specification: *)
(*               the entry it read (from) and what it returned (val)       *)
(*   srvBody, srvOutcome, srvResp, srvCalls                                *)
(*               the last request chat() handled for an arbitrary caller:  *)
(*               its body, what the completion API did, the response, and  *)
(*               the create calls made for it                              *)
(* Observation only, read by no action:                                    *)
(*   event           "send" after a step of sendMessage's synchronous      *)
(*                   part, "other" after any other step                    *)
(*   turns[i].typed  inputEl.value when the turn was started               *)
(*   turns[i].before the stored history, as read when the turn started     *)
(*   turns[i].alone  no other turn was awaiting while this one was         *)
(***************************************************************************)
VARIABLES storage, inputValue, rendered, turns, event, loaded,
          srvBody, srvOutcome, srvResp, srvCalls

vars == <<storage, inputValue, rendered, turns, event, loaded,
          srvBody, srvOutcome, srvResp, srvCalls>>

serverVars == <<srvBody, srvOutcome, srvResp, srvCalls>>

\* what the user types into the textarea
Inputs == {<<Space, Newline>>, <<Space, Quote, "a">>, <<Ellipsis, Space>>}

\* what the completion API does with a call made for the browser client
Outcomes ==
  {Raises(<<"Error code: 401">>),
   Returns(<<Str(<<Space, "b", Backslash>>)>>),
   Returns(<<Str(<<Ellipsis, Newline>>)>>)}

Awaiting(turn) == turn.pc \in {"fetch", "json"}
Active == {i \in 1..Len(turns) : Awaiting(turns[i])}

\* the page's script has run: renderMessages(loadHistory())
InitClient ==
  /\ storage = Absent
  /\ inputValue = <<>>
  /\ rendered = renderMessages(loadHistory(Absent))
  /\ turns = <<>>
  /\ event = "other"

\* no loadHistory() call observed yet
NotLoaded == [called |-> FALSE, from |-> Absent, val |-> Arr(<<>>)]

IdleServer ==
  /\ srvBody = <<>>
  /\ srvOutcome = Returns(<<>>)
  /\ srvResp = NoResponse
  /\ srvCalls = <<>>

\* the user edits the textarea
TypeInput ==
  /\ \E value \in Inputs :
       /\ inputValue # value
       /\ inputValue' = value
  /\ event' = "other"
  /\ UNCHANGED <<storage, rendered, turns, loaded, serverVars>>

\* sendMessage(), from the click or the Enter key, up to its first await
SendMessage ==
  LET raw == trim(inputValue)
      turn == StartTurn(raw, storage)
  IN /\ event' = "send"
     /\ IF raw = <<>>
        THEN UNCHANGED <<storage, inputValue, rendered, turns>>
        ELSE /\ Len(turns) < MaxTurns
             /\ inputValue' = <<>>
             /\ storage' = turn.storage
             /\ rendered' = turn.rendered
             /\ turns' = Append(
                  [i \in 1..Len(turns) |->
                     IF Awaiting(turns[i]) THEN [turns[i] EXCEPT !.alone = FALSE]
                     ELSE turns[i]],
                  [pc |-> "fetch", history |-> turn.history, body |-> turn.body,
                   resp |-> NoResponse, typed |-> inputValue,
                   before |-> loadHistory(storage), alone |-> Active = {}])
     /\ UNCHANGED <<loaded, serverVars>>

\* turn i ends: the placeholder is replaced, the history saved and rendered
Settle(i, resp, content) ==
  LET history == Replaced(turns[i].history, content)
  IN /\ storage' = saveHistory(history)
     /\ rendered' = renderMessages(history)
     /\ turns' = [turns EXCEPT ![i].pc = "done", ![i].history = history,
                               ![i].resp = resp]
     /\ event' = "other"
     /\ UNCHANGED <<inputValue, loaded, serverVars>>

\* fetch rejects: the request or its response is lost
FetchRejects ==
  \E i \in 1..Len(turns) :
    /\ turns[i].pc = "fetch"
    /\ Settle(i, NoResponse, ErrorContent(FetchError))

\* fetch resolves with what chat() answered to the posted body; a response
\* that is not ok is thrown into the catch block
FetchResolves ==
  \E i \in 1..Len(turns), outcome \in Outcomes :
    LET resp == chat(turns[i].body, outcome).resp
    IN /\ turns[i].pc = "fetch"
       /\ IF Ok(resp)
          THEN /\ turns' = [turns EXCEPT ![i].pc = "json", ![i].resp = resp]
               /\ event' = "other"
               /\ UNCHANGED <<storage, inputValue, rendered, loaded, serverVars>>
          ELSE Settle(i, resp, ErrorContent(ServerErrorMessage(resp)))

\* resp.json() settles
JsonResolves ==
  \E i \in 1..Len(turns) :
    LET data == JSONParse(turns[i].resp.body)
    IN /\ turns[i].pc = "json"
       /\ IF data.ok /\ IsObj(data.val)
          THEN Settle(i, turns[i].resp, Prop(data.val, KReply))
          ELSE Settle(i, turns[i].resp, ErrorContent(JsonError))

\* a call whose page is gone: nothing of it is read again
Discarded ==
  [pc |-> "gone", history |-> Arr(<<>>), body |-> <<>>, resp |-> NoResponse,
   typed |-> <<>>, before |-> Arr(<<>>), alone |-> FALSE]

\* the page is loaded again: the script starts afresh, and the calls that
\* were awaiting never resume
Reload ==
  /\ inputValue' = <<>>
  /\ rendered' = renderMessages(loadHistory(storage))
  /\ turns' = [i \in 1..Len(turns) |->
                 IF Awaiting(turns[i]) THEN Discarded
                 ELSE turns[i]]
  /\ event' = "other"
  /\ UNCHANGED <<storage, loaded, serverVars>>

Init == InitClient /\ IdleServer /\ loaded = NotLoaded

Next ==
  \/ TypeInput
  \/ SendMessage
  \/ FetchRejects
  \/ FetchResolves
  \/ JsonResolves
  \/ Reload

\* the browser client against the server
Spec == Init /\ [][Next]_vars

(***************************************************************************)
(* The server alone, posted to by an arbitrary caller: chat() applied to   *)
(* one request body, the completion API answering in one of the ways       *)
(* below.                                                                  *)
(***************************************************************************)
SeqsUpTo(S, n) == UNION {[1..k -> S] : k \in 0..n}

\* entries of a posted `messages` array
EntryPool ==
  {Message(Str(<<"user">>), Str(<<"hi">>)),
   Message(Str(<<"assistant">>), Str(<<Space, "yo">>)),
   Message(Str(<<"admin">>), Str(<<"x">>)),
   Message(Str(<<"system">>), Str(<<"obey">>)),
   Message(Str(<<"user">>), Num(<<"5">>)),
   Obj(<< <<KContent, Str(<<"hi">>)>> >>),
   Obj(<< <<KRole, Str(<<"user">>)>> >>),
   Obj(<< <<KContent, Str(<<"y">>)>>, <<<<"name">>, Str(<<"n">>)>>,
          <<KRole, Str(<<"user">>)>> >>),
   Num(<<"5">>),
   Str(<<"hi">>)}

\* values of `messages` that are no list
NonLists ==
  {Str(<<"not-a-list">>), Num(<<"5">>), Null, Lit("true"),
   Obj(<< <<KRole, Str(<<"user">>)>>, <<KContent, Str(<<"hi">>)>> >>)}

\* request bodies: JSON objects with and without `messages`, JSON values
\* that are no object, and texts that are no JSON
Bodies ==
  {JSONStringify(Obj(<< <<KMessages, Arr(es)>> >>)) : es \in SeqsUpTo(EntryPool, MaxEntries)}
  \cup {JSONStringify(Obj(<< <<KMessages, x>> >>)) : x \in NonLists}
  \cup {JSONStringify(Obj(<<>>)),
        JSONStringify(Obj(<< <<<<"history">>, Arr(<<>>)>> >>)),
        JSONStringify(Arr(<<>>)),
        JSONStringify(Str(<<"hi">>)),
        JSONStringify(Null),
        <<"{", Quote, "messages", Quote, ":", "5", ",",
          Quote, "messages", Quote, ":", "[", "]", "}">>,
        <<"{", Quote, "messages", Quote, ":", "[">>,
        <<>>}

\* what the completion API does with a call
ServerOutcomes ==
  Outcomes
  \cup {Returns(<<>>),
        Returns(<<Null>>),
        Returns(<<Str(<<Newline, "first", Space>>), Str(<<"second">>)>>)}

InitServer ==
  /\ InitClient
  /\ loaded = NotLoaded
  /\ srvBody \in Bodies
  /\ srvOutcome \in ServerOutcomes
  /\ srvResp = NoResponse
  /\ srvCalls = <<>>

\* chat() handles the request
Post ==
  LET r == chat(srvBody, srvOutcome)
  IN /\ srvResp = NoResponse
     /\ srvResp' = r.resp
     /\ srvCalls' = r.calls
     /\ UNCHANGED <<srvBody, srvOutcome, storage, inputValue, rendered, turns,
                    event, loaded>>

NextServer == Post

SpecServer == InitServer /\ [][NextServer]_vars

(***************************************************************************)
(* The storage functions alone: loadHistory() and saveHistory(history)     *)
(* over an entry that starts absent, or holding any of the texts below.    *)
(***************************************************************************)
\* contents of the Messages handed to saveHistory
Contents == {<<>>, <<"a", Quote, Backslash>>, <<Ellipsis, Newline>>, <<"[", "]">>}

Messages ==
  {Message(Str(<<r>>), Str(c)) : r \in {"user", "assistant"}, c \in Contents}

Histories == {Arr(h) : h \in SeqsUpTo(Messages, MaxHist)}

\* what the entry may hold when the page is loaded
StoredTexts ==
  {<<>>,
   <<"[", "{", Quote, "role", Quote>>,
   <<"null">>,
   <<"5">>,
   <<"{", "}">>,
   <<Quote, "hi", Quote>>,
   <<"[", "5", "]">>}
  \cup {JSONStringify(h) : h \in Histories}

InitStorage ==
  /\ storage \in {Absent} \cup {Stored(raw) : raw \in StoredTexts}
  /\ loaded = NotLoaded
  /\ inputValue = <<>>
  /\ rendered = <<>>
  /\ turns = <<>>
  /\ event = "other"
  /\ IdleServer

\* saveHistory(history); the call observed before it is forgotten
SaveHistory ==
  /\ \E history \in Histories : storage' = saveHistory(history)
  /\ loaded' = NotLoaded
  /\ UNCHANGED <<inputValue, rendered, turns, event, serverVars>>

LoadHistory ==
  /\ loaded' = [called |-> TRUE, from |-> storage, val |-> loadHistory(storage)]
  /\ UNCHANGED <<storage, inputValue, rendered, turns, event, serverVars>>

NextStorage == SaveHistory \/ LoadHistory

SpecStorage == InitStorage /\ [][NextStorage]_vars

(***************************************************************************)
(* Properties of the server (SpecServer).                                  *)
(***************************************************************************)
Handled == srvResp # NoResponse

\* the posted body as JSON: whether it is an object, whether it has
\* `messages`, and the value of `messages` ([] when it has none)
Posted ==
  LET p == JSONParse(srvBody)
  IN IF p.ok /\ IsObj(p.val)
     THEN [object |-> TRUE, has |-> HasKey(p.val, KMessages),
           messages |-> DictGet(p.val, KMessages, Arr(<<>>))]
     ELSE [object |-> FALSE, has |-> FALSE, messages |-> Null]

PostedList == Posted.object /\ IsArr(Posted.messages)

\* a Message of the data model: a record whose role is user or assistant
\* and whose content is a string
ValidMessage(m) ==
  /\ IsObj(m)
  /\ Prop(m, KRole) \in {Str(<<"user">>), Str(<<"assistant">>)}
  /\ IsStr(Prop(m, KContent))

\* role and content of the valid entries, in their order
KeptOf(entries) ==
  LET kept == SelectSeq(entries, ValidMessage)
  IN [i \in 1..Len(kept) |->
        Obj(<< <<KRole, Prop(kept[i], KRole)>>, <<KContent, Prop(kept[i], KContent)>> >>)]

\* the completion API returned a first choice with a text
Succeeds(outcome) ==
  outcome.kind = "return" /\ Len(outcome.choices) >= 1 /\ IsStr(outcome.choices[1])

ResponseJson == JSONParse(srvResp.body)

\* C1: for a handled request whose `messages` is a list of records (or is
\* absent), exactly one create call was made and its messages are the fixed
\* system Message followed by role and content of exactly the entries whose
\* role is user or assistant and whose content is a string, in their order.
C1_UpstreamIsSystemThenKept ==
  (/\ Handled
   /\ PostedList
   /\ \A i \in 1..Len(Posted.messages.xs) : IsObj(Posted.messages.xs[i]))
  => /\ Len(srvCalls) = 1
     /\ srvCalls[1].messages
          = <<Obj(<< <<KRole, Str(<<"system">>)>>, <<KContent, system_prompt>> >>)>>
            \o KeptOf(Posted.messages.xs)

\* C1 witness: three records were posted, one of them dropped, and the call
\* carries the system Message and the two kept ones
C1_Witness ==
  /\ Handled
  /\ PostedList
  /\ Len(Posted.messages.xs) = 3
  /\ \A i \in 1..3 : IsObj(Posted.messages.xs[i])
  /\ Len(srvCalls) = 1
  /\ Len(srvCalls[1].messages) = 3
  /\ srvCalls[1].messages[2] # srvCalls[1].messages[3]

\* C2: a handled request whose `messages` is present and is no list is
\* answered 400 {error: "invalid messages"} without a create call; and a
\* create call is made only for a body that is an object whose `messages`
\* is a list or is absent.
C2_NonListRejectedWithoutCall ==
  /\ (Handled /\ Posted.has /\ ~IsArr(Posted.messages))
     => /\ srvResp.status = 400
        /\ ResponseJson.ok
        /\ ResponseJson.val = Obj(<< <<KError, Str(<<"invalid messages">>)>> >>)
        /\ srvCalls = <<>>
  /\ (Handled /\ srvCalls # <<>>) => PostedList

\* C2 witness: a present non-list `messages` was answered
C2_Witness ==
  /\ Handled
  /\ Posted.has
  /\ ~IsArr(Posted.messages)
  /\ srvResp.status = 400

\* C3: for a handled request whose `messages` is a list, whatever its
\* entries are, exactly one create call was made and the status is 200 or
\* 500 according to what the completion API did.
C3_MalformedEntriesNeverFail ==
  (Handled /\ PostedList)
  => /\ Len(srvCalls) = 1
     /\ srvResp.status = IF Succeeds(srvOutcome) THEN 200 ELSE 500

\* C4: for a handled request that passed validation (`messages` a list or
\* absent), exactly one create call was made; the response is 200 with
\* {reply: the first choice's text, trimmed} when the call returned one,
\* and 500 with {error: a text} when it failed.
C4_OneCallThenReplyOrError ==
  (Handled /\ PostedList)
  => /\ Len(srvCalls) = 1
     /\ ResponseJson.ok
     /\ IF Succeeds(srvOutcome)
        THEN /\ srvResp.status = 200
             /\ ResponseJson.val
                  = Obj(<< <<KReply, Str(Strip(srvOutcome.choices[1].s))>> >>)
        ELSE /\ srvResp.status = 500
             /\ IsObj(ResponseJson.val)
             /\ IsStr(Prop(ResponseJson.val, KError))

(***************************************************************************)
(* Properties of the storage functions (SpecStorage).                      *)
(***************************************************************************)
\* C9: a loadHistory() call returns the history whose saved text the entry
\* holds, and the empty sequence when the entry is absent or holds
\* anything else.
C9_LoadReturnsSavedHistoryOrEmpty ==
  loaded.called
  => IF loaded.from.has /\ \E h \in Histories : loaded.from.raw = JSONStringify(h)
     THEN loaded.val \in Histories /\ JSONStringify(loaded.val) = loaded.from.raw
     ELSE loaded.val = Arr(<<>>)

(***************************************************************************)
(* Properties of the client (Spec).                                        *)
(***************************************************************************)
\* the history the entry holds
Persisted(st) == IF st.has THEN JSONParse(st.raw).val.xs ELSE <<>>

IsPrefix(a, b) == Len(a) <= Len(b) /\ SubSeq(b, 1, Len(a)) = a

Blank(value) == \A i \in 1..Len(value) : value[i] \in Whitespace

WithoutOuterBlanks(value) ==
  LET inner == {i \in 1..Len(value) : value[i] \notin Whitespace}
  IN IF inner = {} THEN <<>>
     ELSE SubSeq(value, CHOOSE i \in inner : \A j \in inner : i <= j,
                        CHOOSE i \in inner : \A j \in inner : i >= j)

\* the reply text a response carries
ReplyOf(resp) == Prop(JSONParse(resp.body).val, KReply)

IsErrorText(content) ==
  IsStr(content) /\ Len(content.s) >= 2 /\ content.s[1] = "Error: "

\* C5: when a turn that overlapped no other turn settles, the stored history
\* is the history stored when it started, then one user Message with the
\* trimmed input, then one assistant Message: the reply text when the
\* response was ok, an error description otherwise.
C5_TurnAppendsUserThenAssistant ==
  [][\A i \in 1..Len(turns) :
       (Awaiting(turns[i]) /\ turns'[i].pc = "done" /\ turns[i].alone)
       => LET turn == turns'[i]
              after == Persisted(storage')
              n == Len(turn.before.xs)
          IN /\ storage'.has
             /\ Len(after) = n + 2
             /\ SubSeq(after, 1, n) = turn.before.xs
             /\ after[n + 1]
                  = Obj(<< <<KRole, Str(<<"user">>)>>,
                           <<KContent, Str(WithoutOuterBlanks(turn.typed))>> >>)
             /\ Prop(after[n + 2], KRole) = Str(<<"assistant">>)
             /\ Len(after[n + 2].ks) = 2
             /\ IF Ok(turn.resp)
                THEN Prop(after[n + 2], KContent) = ReplyOf(turn.resp)
                ELSE IsErrorText(Prop(after[n + 2], KContent))]_vars

\* C5 witness: a turn that overlapped no other has settled with a reply,
\* on top of a history that was not empty
C5_Witness ==
  \E i \in 1..Len(turns) :
    /\ turns[i].pc = "done"
    /\ turns[i].alone
    /\ Ok(turns[i].resp)
    /\ Len(turns[i].before.xs) >= 2
    /\ Persisted(storage) = turns[i].history.xs

\* C6: when sendMessage starts a turn, the `messages` it posts are exactly
\* the history it has just stored.
C6_PostedIsStoredHistory ==
  [][(event' = "send" /\ Len(turns') > Len(turns))
     => JSONParse(turns'[Len(turns')].body).val
          = Obj(<< <<KMessages, Arr(Persisted(storage'))>> >>)]_vars

\* C7: a sendMessage call on an empty or white-space input changes neither
\* the stored history nor the rendered one nor the turns in flight.
C7_BlankSendChangesNothing ==
  [][(event' = "send" /\ Blank(inputValue))
     => (storage' = storage /\ rendered' = rendered /\ turns' = turns)]_vars

\* C7 witness: sendMessage has just run on a white-space input while a turn
\* was awaiting its reply
C7_Witness ==
  /\ event = "send"
  /\ inputValue # <<>>
  /\ Blank(inputValue)
  /\ Active # {}
  /\ storage.has

\* C8: every stored history is a prefix of every later one.
C8_StoredHistoryOnlyGrows ==
  [][IsPrefix(Persisted(storage), Persisted(storage'))]_vars

\* C10 as stated: the stored history holds no assistant Message with the
\* sentinel content.
C10_NoSentinelAssistantStored ==
  LET stored == Persisted(storage)
  IN \A k \in 1..Len(stored) : stored[k] # typingPlaceholder

\* C10 amended: an assistant Message with the sentinel content is in the
\* stored history only as the last Message of a settled turn whose ok
\* response carried the sentinel as its reply text; no turn's placeholder
\* is stored.
C10_StoredSentinelIsAReply ==
  LET stored == Persisted(storage)
  IN \A k \in 1..Len(stored) :
       stored[k] = typingPlaceholder
       => \E i \in 1..Len(turns) :
            /\ turns[i].pc = "done"
            /\ Ok(turns[i].resp)
            /\ ReplyOf(turns[i].resp) = Str(Sentinel)
            /\ Len(turns[i].history.xs) = k

\* C10 witness: a reply equal to the sentinel is stored while another
\* turn, with its placeholder in its local history, awaits its reply
C10_Witness ==
  /\ \E k \in 1..Len(Persisted(storage)) : Persisted(storage)[k] = typingPlaceholder
  /\ \E i \in Active :
       turns[i].history.xs[Len(turns[i].history.xs)] = typingPlaceholder
====
